---- MODULE Spec2Model ----
(***************************************************************************)
(* A model of the ascb crate: the Semigroup / Monoid utilities of          *)
(* src/traits.rs (power_semigroup, power_monoid, the instances for pairs,  *)
(* Option and HashMap) and the Gaussian moment accumulator of              *)
(* src/gaussian.rs.                                                        *)
(*                                                                         *)
(* Arithmetic.  The accumulator's fields are f64 in the source.  Here the  *)
(* count is an integer (it only ever holds integral values) and the two    *)
(* moments are exact rationals <<p, q>> in lowest terms with q > 0: the    *)
(* formulas are evaluated as written in the source, operation by           *)
(* operation, but without f64 rounding.                                    *)
(***************************************************************************)
EXTENDS Integers, Sequences, FiniteSets, TLC

(***************************************************************************)
(* Bounds of the model.                                                    *)
(***************************************************************************)
\* samples are drawn from 1..MaxSample
MaxSample == 4
\* at most MaxLen samples are folded into the accumulators held at one time
MaxLen == 4
\* at most MaxParts partial accumulators are held at one time
MaxParts == 3

\* power_semigroup and power_monoid are called with counts up to MaxN
MaxN == 9
\* the strings raised to a power have at most MaxStr characters
MaxStr == 2

Samples == 1..MaxSample

(***************************************************************************)
(* Exact rationals.                                                        *)
(***************************************************************************)
Abs(i) == IF i < 0 THEN -i ELSE i

RECURSIVE GCD(_, _)
GCD(a, b) == IF b = 0 THEN a ELSE GCD(b, a % b)

\* the fraction p/q (q # 0) in lowest terms with a positive denominator
Rat(p, q) ==
    LET g == GCD(Abs(p), Abs(q))
        s == IF q < 0 THEN -1 ELSE 1
    IN  <<(s * p) \div g, (s * q) \div g>>

RInt(i) == <<i, 1>>
RAdd(x, y) == Rat(x[1] * y[2] + y[1] * x[2], x[2] * y[2])
RSub(x, y) == Rat(x[1] * y[2] - y[1] * x[2], x[2] * y[2])
RMul(x, y) == Rat(x[1] * y[1], x[2] * y[2])
RDiv(x, y) == Rat(x[1] * y[2], x[2] * y[1])
RAbs(x) == <<Abs(x[1]), x[2]>>
RLeq(x, y) == x[1] * y[2] <= y[1] * x[2]
RZero == RInt(0)

(***************************************************************************)
(* gaussian.rs                                                             *)
(***************************************************************************)
\* floor((q * e) / 10^8), computed without forming q * e
FloorE8(q, e) ==
    ((q * (e \div 10000)) + ((q * (e % 10000)) \div 10000)) \div 10000

\* fn _close(x, y): (x - y).abs() <= 1e-8 + 1e-5 * y.abs()
\* with |x - y| = p/q and |y| = c/d this is p*d*10^8 <= q*(d + 1000*c)
_close(x, y) ==
    LET diff == RAbs(RSub(x, y))
        ay == RAbs(y)
    IN  diff[1] * ay[2] <= FloorE8(diff[2], ay[2] + 1000 * ay[1])

\* impl PartialEq for Gaussian
eq(self, other) ==
    /\ self.n = other.n
    /\ _close(self.m1, other.m1)
    /\ _close(self.m2, other.m2)

\* impl Default for Gaussian
default == [m1 |-> RZero, m2 |-> RZero, n |-> 0]

\* Gaussian::new
new(x) == [m1 |-> RInt(x), m2 |-> RZero, n |-> 1]

\* Gaussian::mean
mean(self) == self.m1

\* variance with the population divisor n instead of n - 1
variance_population(self) ==
    IF self.n > 1
    THEN [panic |-> FALSE, val |-> RDiv(self.m2, RInt(self.n))]
    ELSE [panic |-> TRUE, msg |-> "Variance requires more than 1 sample."]

\* Gaussian::variance: the assert! panics unless n > 1
variance(self) ==
    IF self.n > 1
    THEN [panic |-> FALSE, val |-> RDiv(self.m2, RInt(self.n - 1))]
    ELSE [panic |-> TRUE, msg |-> "Variance requires more than 1 sample."]

\* impl Add<f64> for Gaussian: builds a new value from self and x
add(self, x) ==
    LET n == self.n + 1
        m1 == RAdd(self.m1, RDiv(RSub(RInt(x), self.m1), RInt(n)))
        m2 == RAdd(self.m2, RMul(RSub(RInt(x), self.m1), RSub(RInt(x), m1)))
    IN  [m1 |-> m1, m2 |-> m2, n |-> n]

\* add_assign with the updated mean in both factors of the m2 increment
add_assign_new_mean_twice(self, x) ==
    LET n == self.n + 1
        m1 == RAdd(self.m1, RDiv(RSub(RInt(x), self.m1), RInt(n)))
        m2 == RAdd(self.m2, RMul(RSub(RInt(x), m1), RSub(RInt(x), m1)))
    IN  [m1 |-> m1, m2 |-> m2, n |-> n]

\* impl AddAssign<f64> for Gaussian: the three assignments in order
add_assign(self, x) ==
    LET s1 == [self EXCEPT !.n = self.n + 1]
        m1_old == s1.m1
        s2 == [s1 EXCEPT !.m1 = RAdd(s1.m1, RDiv(RSub(RInt(x), m1_old), RInt(s1.n)))]
        s3 == [s2 EXCEPT !.m2 = RAdd(s2.m2, RMul(RSub(RInt(x), m1_old), RSub(RInt(x), s2.m1)))]
    IN  s3

\* impl FromIterator<f64> for Gaussian: g += i for each i, from Default
RECURSIVE from_iter_loop(_, _)
from_iter_loop(g, iter) ==
    IF iter = <<>> THEN g
    ELSE from_iter_loop(add_assign(g, Head(iter)), Tail(iter))

from_iter(iter) == from_iter_loop(default, iter)

\* op without the between-group correction term of m2
op_merge_no_correction(a, b, n) ==
    [m1 |-> RAdd(RMul(a.m1, Rat(a.n, n)), RMul(b.m1, Rat(b.n, n))),
     m2 |-> RAdd(a.m2, b.m2),
     n |-> n]

\* op with the plain average of the two means instead of the weighted one
op_merge_plain_mean(a, b, n) ==
    LET d == RSub(a.m1, b.m1)
    IN  [m1 |-> RDiv(RAdd(a.m1, b.m1), RInt(2)),
         m2 |-> RAdd(RAdd(a.m2, b.m2),
                     RDiv(RMul(RMul(d, d), RInt(a.n * b.n)), RInt(n))),
         n |-> n]

\* op with n_a + n_b in place of n_a * n_b in the correction term
op_merge_sum_weight(a, b, n) ==
    LET d == RSub(a.m1, b.m1)
    IN  [m1 |-> RAdd(RMul(a.m1, Rat(a.n, n)), RMul(b.m1, Rat(b.n, n))),
         m2 |-> RAdd(RAdd(a.m2, b.m2),
                     RDiv(RMul(RMul(d, d), RInt(a.n + b.n)), RInt(n))),
         n |-> n]

\* op with the correction term subtracted
op_merge_minus(a, b, n) ==
    LET d == RSub(a.m1, b.m1)
    IN  [m1 |-> RAdd(RMul(a.m1, Rat(a.n, n)), RMul(b.m1, Rat(b.n, n))),
         m2 |-> RSub(RAdd(a.m2, b.m2),
                     RDiv(RMul(RMul(d, d), RInt(a.n * b.n)), RInt(n))),
         n |-> n]

\* the else branch of op: the weighted mean and the corrected m2
op_merge(a, b, n) ==
    LET m1 == RAdd(RMul(a.m1, Rat(a.n, n)), RMul(b.m1, Rat(b.n, n)))
        d == RSub(a.m1, b.m1)
        m2 == RAdd(RAdd(a.m2, b.m2),
                   RDiv(RMul(RMul(d, d), RInt(a.n * b.n)), RInt(n)))
    IN  [m1 |-> m1, m2 |-> m2, n |-> n]

\* impl Semigroup for Gaussian
op(a, b) ==
    LET n == a.n + b.n
    IN  IF n = 0 THEN default ELSE op_merge(a, b, n)

\* impl Monoid for Gaussian
zero == default

(***************************************************************************)
(* The accumulators a caller holds.  parts is the list of partial          *)
(* accumulators of a chunked reduction (lib.rs, tests::gaussian): each     *)
(* entry is the accumulator g together with xs, the multiset of samples    *)
(* that went into it (a sorted sequence).  out records the latest call and *)
(* its arguments; the value a call produces is the last entry of parts,    *)
(* and for the calls that only read it is in out.                          *)
(***************************************************************************)
VARIABLES parts, out, pw, kind, cx, cy, inst

vars == <<parts, out, pw, kind, cx, cy, inst>>

\* what the calls on accumulators leave alone
NotGaussian == UNCHANGED <<pw, kind, cx, cy, inst>>

NoOut == [call |-> "none"]

Top == parts[Len(parts)]

\* the number of samples folded into the accumulators held
RECURSIVE FoldedUpTo(_)
FoldedUpTo(i) == IF i = 0 THEN 0 ELSE Len(parts[i].xs) + FoldedUpTo(i - 1)
Folded == FoldedUpTo(Len(parts))

Push(e) == parts' = Append(parts, e)
SetTop(e) == parts' = [parts EXCEPT ![Len(parts)] = e]

\* the multiset s with x added
RECURSIVE Insert(_, _)
Insert(s, x) ==
    IF s = <<>> THEN <<x>>
    ELSE IF x <= Head(s) THEN <<x>> \o s
    ELSE <<Head(s)>> \o Insert(Tail(s), x)

\* the multiset s with the elements of t added
RECURSIVE InsertAll(_, _)
InsertAll(s, t) == IF t = <<>> THEN s ELSE InsertAll(Insert(s, Head(t)), Tail(t))

Chunks(k) == UNION {[1..l -> Samples] : l \in 0..k}

InitGaussian ==
    /\ parts = <<>>
    /\ out = NoOut

\* Gaussian::default() / Monoid::zero()
Default ==
    /\ Len(parts) < MaxParts
    /\ Push([g |-> default, xs |-> <<>>])
    /\ out' = [call |-> "default"]
    /\ NotGaussian

\* Gaussian::new(x)
New ==
    /\ Len(parts) < MaxParts
    /\ Folded < MaxLen
    /\ \E x \in Samples :
         /\ Push([g |-> new(x), xs |-> <<x>>])
         /\ out' = [call |-> "new", x |-> x]
    /\ NotGaussian

\* g += x
AddAssign ==
    /\ parts # <<>>
    /\ Folded < MaxLen
    /\ \E x \in Samples :
         /\ SetTop([g |-> add_assign(Top.g, x), xs |-> Insert(Top.xs, x)])
         /\ out' = [call |-> "add_assign", self |-> Top.g, x |-> x]
    /\ NotGaussian

\* g = g + x  (the fold closure |g, &x| g + x)
Add ==
    /\ parts # <<>>
    /\ Folded < MaxLen
    /\ \E x \in Samples :
         /\ SetTop([g |-> add(Top.g, x), xs |-> Insert(Top.xs, x)])
         /\ out' = [call |-> "add", self |-> Top.g, x |-> x]
    /\ NotGaussian

\* chunk.iter().collect()
FromIter ==
    /\ Len(parts) < MaxParts
    /\ \E c \in Chunks(MaxLen - Folded) :
         /\ Push([g |-> from_iter(c), xs |-> InsertAll(<<>>, c)])
         /\ out' = [call |-> "from_iter", iter |-> c]
    /\ NotGaussian

\* the reduce closure |g1, g2| Semigroup::op(&g1, &g2) on the two latest
\* partial accumulators
Merge ==
    /\ Len(parts) >= 2
    /\ LET a == parts[Len(parts) - 1]
           b == Top
       IN  /\ parts' = Append(SubSeq(parts, 1, Len(parts) - 2),
                              [g |-> op(a.g, b.g), xs |-> InsertAll(a.xs, b.xs)])
           /\ out' = [call |-> "op", a |-> a, b |-> b]
    /\ NotGaussian

\* g.variance()
Variance ==
    /\ parts # <<>>
    /\ out' = [call |-> "variance", self |-> Top.g, res |-> variance(Top.g)]
    /\ UNCHANGED parts
    /\ NotGaussian

\* semigroup_properties!: the two sides of the associativity test
Associativity ==
    /\ Len(parts) = 3
    /\ LET x == parts[1].g
           y == parts[2].g
           z == parts[3].g
       IN  out' = [call |-> "associativity",
                   left |-> op(x, op(y, z)), right |-> op(op(x, y), z)]
    /\ UNCHANGED parts
    /\ NotGaussian

NextGaussian ==
    \/ Default
    \/ New
    \/ AddAssign
    \/ Add
    \/ FromIter
    \/ Merge
    \/ Variance
    \/ Associativity

(***************************************************************************)
(* traits.rs: power_semigroup and power_monoid, instantiated with the      *)
(* String monoid of lib.rs (op is concatenation, zero is "").  A string is *)
(* a sequence of characters.                                               *)
(***************************************************************************)
Letters == {"a", "b"}

Strings(k) == UNION {[1..l -> Letters] : l \in 0..k}

\* impl Semigroup for String: format!("{}{}", x, y)
String_op(x, y) == x \o y

\* impl Monoid for String
String_zero == <<>>

None == [some |-> FALSE]
Some(v) == [some |-> TRUE, v |-> v]

\* NonZeroU64::new: None for 0
NonZeroU64_new(n) == IF n = 0 THEN None ELSE Some(n)

\* power_semigroup on entry: let mut y = x.clone(); let mut m = n.get();
power_semigroup_enter(x, n) ==
    [pc |-> "loop", x |-> x, y |-> x, m |-> n, calls |-> 0]

\* one round of while m > 1 { if m & 1 == 1 { y = op(&y, x) } y = op(&y, &y); m >>= 1 }
power_semigroup_round(st) ==
    LET odd == st.m % 2 = 1
        y1 == IF odd THEN String_op(st.y, st.x) ELSE st.y
        y2 == String_op(y1, y1)
    IN  [st EXCEPT !.y = y2,
                   !.m = st.m \div 2,
                   !.calls = st.calls + (IF odd THEN 2 ELSE 1)]

\* power_monoid without the zero case: every count goes to power_semigroup
power_monoid_enter_unchecked(x, n) == power_semigroup_enter(x, n)

\* power_monoid: NonZeroU64::new(n).map_or_else(M::zero, |p| power_semigroup(x, p))
power_monoid_enter(x, n) ==
    LET p == NonZeroU64_new(n)
    IN  IF p.some
        THEN power_semigroup_enter(x, p.v)
        ELSE [pc |-> "done", x |-> x, y |-> String_zero, m |-> n, calls |-> 0]

(***************************************************************************)
(* A call of one of the two functions.  pw.fn is the function called, pw.n *)
(* the count asked for, pw.st the local state of power_semigroup (x, y, m  *)
(* and the number of calls of op so far) and pw.res the outcome.           *)
(***************************************************************************)
Idle == [fn |-> "none"]

\* what the calls of the power functions leave alone
NotPower == UNCHANGED <<parts, out, kind, cx, cy, inst>>

\* a caller holding a plain u64 count asks for power_semigroup: the
\* parameter is a NonZeroU64, so the count goes through NonZeroU64::new,
\* and for 0 there is no value to call the function with
CallPowerSemigroup ==
    /\ IF pw.fn = "none" THEN TRUE ELSE pw.st.pc = "done"
    /\ \E x \in Strings(MaxStr) \ {String_zero}, n \in 0..MaxN :
         LET p == NonZeroU64_new(n)
         IN  pw' = IF p.some
                   THEN [fn |-> "power_semigroup", n |-> n,
                         st |-> power_semigroup_enter(x, p.v), res |-> None]
                   ELSE [fn |-> "power_semigroup", n |-> n,
                         st |-> [pc |-> "done", x |-> x, calls |-> 0],
                         res |-> None]
    /\ NotPower

CallPowerMonoid ==
    /\ IF pw.fn = "none" THEN TRUE ELSE pw.st.pc = "done"
    /\ \E x \in Strings(MaxStr) \ {String_zero}, n \in 0..MaxN :
         LET st == power_monoid_enter(x, n)
         IN  pw' = [fn |-> "power_monoid", n |-> n, st |-> st,
                    res |-> IF st.pc = "done" THEN Some(st.y) ELSE None]
    /\ NotPower

\* while m > 1 { ... }
PowerLoop ==
    /\ pw.fn # "none"
    /\ pw.st.pc = "loop"
    /\ pw.st.m > 1
    /\ pw' = [pw EXCEPT !.st = power_semigroup_round(pw.st)]
    /\ NotPower

\* the loop ends and y is returned
PowerReturn ==
    /\ pw.fn # "none"
    /\ pw.st.pc = "loop"
    /\ ~(pw.st.m > 1)
    /\ pw' = [pw EXCEPT !.st.pc = "done", !.res = Some(pw.st.y)]
    /\ NotPower

NextPower ==
    \/ CallPowerSemigroup
    \/ CallPowerMonoid
    \/ PowerLoop
    \/ PowerReturn

(***************************************************************************)
(* traits.rs: the instances for pairs, Option and HashMap, instantiated    *)
(* with the monoids of lib.rs: String (not commutative) and Any.           *)
(***************************************************************************)
\* impl Semigroup for Any: Any(x || y)
Any_op(x, y) == x \/ y

\* impl Monoid for Any
Any_zero == FALSE

\* impl Semigroup for (X, Y) with X = String, Y = Any
tuple_op(p, q) == <<String_op(p[1], q[1]), Any_op(p[2], q[2])>>

\* impl Monoid for (X, Y)
tuple_zero == <<String_zero, Any_zero>>

\* Option::op with None absorbing instead of neutral
Option_op_none_absorbs(x, y) ==
    IF x.some /\ y.some THEN Some(String_op(x.v, y.v)) ELSE None

\* impl Semigroup for Option<T> with T = String: the three match arms in order
Option_op(x, y) ==
    IF x.some /\ y.some THEN Some(String_op(x.v, y.v))
    ELSE IF ~x.some THEN y
    ELSE x

\* impl Monoid for Option<T>
Option_zero == None

\* HashMap::default(): the map with no entry
HashMap_default == [k \in {} |-> String_zero]

\* the entry step as a plain insert, which replaces the value of a key present
HashMap_entry_insert(h, k, v) ==
    IF k \in DOMAIN h THEN [h EXCEPT ![k] = v] ELSE h @@ (k :> v)

\* h.entry(k.clone()).and_modify(|w| *w = V::op(w, v)).or_insert_with(|| v.clone())
HashMap_entry(h, k, v) ==
    IF k \in DOMAIN h
    THEN [h EXCEPT ![k] = String_op(h[k], v)]
    ELSE h @@ (k :> v)

\* for (k, v) in ... { the entry step }
RECURSIVE HashMap_op_loop(_, _)
HashMap_op_loop(h, entries) ==
    IF entries = <<>> THEN h
    ELSE HashMap_op_loop(HashMap_entry(h, Head(entries)[1], Head(entries)[2]),
                         Tail(entries))

\* m.iter(): the entries of m, in the order ord lists its keys
RECURSIVE HashMap_iter(_, _)
HashMap_iter(m, ord) ==
    IF ord = <<>> THEN <<>>
    ELSE IF Head(ord) \in DOMAIN m
         THEN <<<<Head(ord), m[Head(ord)]>>>> \o HashMap_iter(m, Tail(ord))
         ELSE HashMap_iter(m, Tail(ord))

\* impl Semigroup for HashMap<K, V, S> with V = String; x is iterated in the
\* order ox and y in the order oy: x.iter().chain(y.iter())
HashMap_op(x, y, ox, oy) ==
    HashMap_op_loop(HashMap_default, HashMap_iter(x, ox) \o HashMap_iter(y, oy))

\* impl Monoid for HashMap<K, V, S>
HashMap_zero == HashMap_default

(***************************************************************************)
(* The law tests of properties.rs on the three composite types.  kind is   *)
(* the type under test, cx and cy two values of it, inst the latest call.  *)
(* A HashMap iterates in an unspecified order: every call of op picks the  *)
(* orders its two operands are iterated in.                                *)
(***************************************************************************)
Keys == {"i", "j", "k"}

\* the values of the maps
Values == Strings(1) \ {String_zero}

Kinds == {"tuple", "option", "hashmap"}

Arbitrary(t) ==
    CASE t = "tuple" -> Strings(1) \X BOOLEAN
      [] t = "option" -> {None} \cup {Some(v) : v \in Strings(1)}
      [] t = "hashmap" -> UNION {[S -> Values] : S \in SUBSET Keys}

\* the orders in which the keys can come out of an iteration
Orders == {o \in [1..Cardinality(Keys) -> Keys] : \A k \in Keys : \E i \in DOMAIN o : o[i] = k}

\* only the maps iterate: the other types have a single (empty) order
OrdersOf(t) == IF t = "hashmap" THEN Orders ELSE {<<>>}

Semigroup_op(t, x, y, ox, oy) ==
    CASE t = "tuple" -> tuple_op(x, y)
      [] t = "option" -> Option_op(x, y)
      [] t = "hashmap" -> HashMap_op(x, y, ox, oy)

Monoid_zero(t) ==
    CASE t = "tuple" -> tuple_zero
      [] t = "option" -> Option_zero
      [] t = "hashmap" -> HashMap_zero

NoCall == [call |-> "none"]

\* what the calls on composite values leave alone
NotInstances == UNCHANGED <<parts, out, pw>>

\* Semigroup::op(&x, &y); x and y are borrowed and stay as they are
Op ==
    /\ inst.call = "none"
    /\ \E ox \in OrdersOf(kind), oy \in OrdersOf(kind) :
         inst' = [call |-> "op", res |-> Semigroup_op(kind, cx, cy, ox, oy)]
    /\ UNCHANGED <<kind, cx, cy>>
    /\ NotInstances

\* semigroup_properties!: associativity(x, y, z)
AssociativityTest ==
    /\ inst.call = "none"
    /\ \E z \in Arbitrary(kind), ox \in OrdersOf(kind), oy \in OrdersOf(kind) :
         inst' = [call |-> "associativity", z |-> z,
                  left |-> Semigroup_op(kind, cx, Semigroup_op(kind, cy, z, ox, oy), ox, oy),
                  right |-> Semigroup_op(kind, Semigroup_op(kind, cx, cy, ox, oy), z, ox, oy)]
    /\ UNCHANGED <<kind, cx, cy>>
    /\ NotInstances

\* monoid_properties!: left_zero(x)
LeftZero ==
    /\ inst.call = "none"
    /\ \E ox \in OrdersOf(kind), oy \in OrdersOf(kind) :
         inst' = [call |-> "left_zero",
                  res |-> Semigroup_op(kind, Monoid_zero(kind), cx, ox, oy)]
    /\ UNCHANGED <<kind, cx, cy>>
    /\ NotInstances

\* monoid_properties!: right_zero(x)
RightZero ==
    /\ inst.call = "none"
    /\ \E ox \in OrdersOf(kind), oy \in OrdersOf(kind) :
         inst' = [call |-> "right_zero",
                  res |-> Semigroup_op(kind, cx, Monoid_zero(kind), ox, oy)]
    /\ UNCHANGED <<kind, cx, cy>>
    /\ NotInstances

NextInstances ==
    \/ Op
    \/ AssociativityTest
    \/ LeftZero
    \/ RightZero

(***************************************************************************)
(* The comparison of two accumulators.  The tolerance of _close is         *)
(* 1e-8 + 1e-5 * |y|: two values one apart are told apart or not near      *)
(* |y| = 100000, so the compared accumulators are built from samples       *)
(* just below that magnitude.                                              *)
(***************************************************************************)
WideSamples == {100000 - d : d \in 0..MaxSample}

\* the accumulators of at most two such samples
WideGaussians ==
    {from_iter(iter) : iter \in UNION {[1..l -> WideSamples] : l \in 0..2}}

\* a == b, PartialEq::eq(&a, &b), with a = cx and b = cy
Eq ==
    /\ inst.call = "none"
    /\ inst' = [call |-> "eq", res |-> eq(cx, cy)]
    /\ UNCHANGED <<kind, cx, cy>>
    /\ NotInstances

\* a != b, the provided PartialEq::ne: !eq
Ne ==
    /\ inst.call = "none"
    /\ inst' = [call |-> "ne", res |-> ~eq(cx, cy)]
    /\ UNCHANGED <<kind, cx, cy>>
    /\ NotInstances

NextEq ==
    \/ Eq
    \/ Ne

Init ==
    /\ InitGaussian
    /\ pw = Idle
    /\ kind = "tuple"
    /\ cx = tuple_zero
    /\ cy = tuple_zero
    /\ inst = NoCall

\* the law tests start from any two values of one of the composite types
InitInstances ==
    /\ InitGaussian
    /\ pw = Idle
    /\ kind \in Kinds
    /\ cx \in Arbitrary(kind)
    /\ cy \in Arbitrary(kind)
    /\ inst = NoCall

\* a comparison starts from any two accumulators
InitEq ==
    /\ InitGaussian
    /\ pw = Idle
    /\ kind = "gaussian"
    /\ cx \in WideGaussians
    /\ cy \in WideGaussians
    /\ inst = NoCall

Next == NextGaussian

Spec == Init /\ [][Next]_vars

SpecInstances == InitInstances /\ [][NextInstances]_vars

SpecPower == Init /\ [][NextPower]_vars

SpecEq == InitEq /\ [][NextEq]_vars

(***************************************************************************)
(* Properties of the accumulator.                                          *)
(***************************************************************************)
Gaussian(n, m1, m2) == [m1 |-> m1, m2 |-> m2, n |-> n]

\* C2: every accumulator held, however its samples were ordered, chunked,
\* folded (new, +, +=, from_iter) and merged (op, in any grouping), has the
\* count, mean and m2 that from_iter yields by folding the same samples one
\* at a time from Empty, and is == to it.
C2_ChunkedEqualsSequential ==
    \A i \in 1..Len(parts) :
        LET seq == from_iter(parts[i].xs)
        IN  /\ parts[i].g = seq
            /\ eq(seq, parts[i].g)

\* two different two-sample chunks have just been merged
C2_Witness ==
    /\ out.call = "op"
    /\ out.a.g.n = 2
    /\ out.b.g.n = 2
    /\ out.a.g.m1 # out.b.g.m1
    /\ out.a.g.m2 # out.b.g.m2
    /\ Top.g = from_iter(Top.xs)

\* C3: op is associative on the accumulators held: op(x, op(y, z)) ==
\* op(op(x, y), z), count, mean and m2, whichever of them are Empty.
C3_Associativity ==
    out.call = "associativity" =>
        /\ out.left = out.right
        /\ eq(out.left, out.right)

\* the associativity test has run on three populated accumulators of
\* different means and counts
C3_Witness ==
    /\ out.call = "associativity"
    /\ parts[1].g.n = 2
    /\ parts[2].g.n = 1
    /\ parts[3].g.n = 1
    /\ parts[1].g.m1 # parts[2].g.m1
    /\ parts[2].g.m1 # parts[3].g.m1
    /\ parts[1].g.m2 # RZero
    /\ eq(out.left, out.right)

\* C4: op with zero() on either side returns the other operand field for
\* field; op of two Empty accumulators is Empty.
C4_ZeroIsIdentity ==
    out.call = "op" =>
        /\ out.a.g = zero => Top.g = out.b.g
        /\ out.b.g = zero => Top.g = out.a.g
        /\ (out.a.g = zero /\ out.b.g = zero) => Top.g = default

\* Empty has just been merged, on the left, with an accumulator of several
\* samples and a nonzero m2
C4_Witness ==
    /\ out.call = "op"
    /\ out.a.g = zero
    /\ out.b.g.n >= 2
    /\ out.b.g.m2 # RZero
    /\ Top.g = out.b.g

\* C5: variance() panics, and returns no number, when count <= 1; when
\* count > 1 it returns m2 / (count - 1) without panicking.
C5_VarianceNeedsTwoSamples ==
    out.call = "variance" =>
        IF out.self.n <= 1
        THEN /\ out.res.panic
             /\ "val" \notin DOMAIN out.res
        ELSE /\ ~out.res.panic
             /\ RMul(out.res.val, RInt(out.self.n - 1)) = out.self.m2

\* variance() was called on an accumulator of exactly one sample
C5_Witness ==
    /\ out.call = "variance"
    /\ out.self.n = 1
    /\ Top.xs # <<>>
    /\ out.res.panic

\* C9: from_iter of 1,2,3,4 is (4, 5/2, 5), of 1,2 it is (2, 3/2, 1/2) and
\* of 3,4 it is (2, 7/2, 1/2), and so is what + and += build from these
\* samples; op of the accumulators of 1,2 and of 3,4 is (4, 5/2, 5).
C9_Scenario ==
    /\ out.call = "from_iter" =>
         /\ out.iter = <<1, 2, 3, 4>> => Top.g = Gaussian(4, <<5, 2>>, <<5, 1>>)
         /\ out.iter = <<1, 2>> => Top.g = Gaussian(2, <<3, 2>>, <<1, 2>>)
         /\ out.iter = <<3, 4>> => Top.g = Gaussian(2, <<7, 2>>, <<1, 2>>)
    /\ (out.call \in {"add", "add_assign"} /\ out.x = 4) =>
         /\ out.self = Gaussian(3, <<2, 1>>, <<2, 1>>) =>
              Top.g = Gaussian(4, <<5, 2>>, <<5, 1>>)
         /\ out.self = Gaussian(1, <<3, 1>>, <<0, 1>>) =>
              Top.g = Gaussian(2, <<7, 2>>, <<1, 2>>)
    /\ (out.call = "op" /\ out.a.xs = <<1, 2>> /\ out.b.xs = <<3, 4>>) =>
         /\ out.a.g = Gaussian(2, <<3, 2>>, <<1, 2>>)
         /\ out.b.g = Gaussian(2, <<7, 2>>, <<1, 2>>)
         /\ Top.g = Gaussian(4, <<5, 2>>, <<5, 1>>)

\* the accumulators of 1,2 and of 3,4 have just been merged
C9_Witness ==
    /\ out.call = "op"
    /\ out.a.xs = <<1, 2>>
    /\ out.b.xs = <<3, 4>>
    /\ Top.g = Gaussian(4, <<5, 2>>, <<5, 1>>)

\* C10: every accumulator held has count = the number of samples folded in
\* (so count >= 0), is the canonical Empty when count = 0, and has m2 >= 0
\* when count >= 1; a fold yields a populated accumulator and so does a merge
\* with a populated operand.
C10_Invariants ==
    /\ \A i \in 1..Len(parts) :
         LET g == parts[i].g
         IN  /\ g.n >= 0
             /\ g.n = Len(parts[i].xs)
             /\ g.n = 0 => (g.m1 = RZero /\ g.m2 = RZero)
             /\ g.n >= 1 => RLeq(RZero, g.m2)
    /\ out.call \in {"add", "add_assign"} => Top.g.n >= 1
    /\ (out.call = "op" /\ (out.a.g.n >= 1 \/ out.b.g.n >= 1)) => Top.g.n >= 1

\* an accumulator of three samples with a positive m2 has just been merged
\* with Empty and is still populated
C10_Witness ==
    /\ out.call = "op"
    /\ out.a.g.n >= 1
    /\ out.b.g.n = 0
    /\ Top.g.n = Len(Top.xs)
    /\ Top.g.n = 3
    /\ Top.g.m2 # RZero

\* C11: g + x and g += x fold a sample the same way: whichever of the two
\* was called, its result is what the other computes from the same g and x,
\* namely count + 1, old_mean + (x - old_mean) / (count + 1) and
\* m2 + (x - old_mean) * (x - new_mean).
C11_AddIsAddAssign ==
    out.call \in {"add", "add_assign"} =>
        LET g == out.self
            x == RInt(out.x)
            new_mean == RAdd(g.m1, RDiv(RSub(x, g.m1), RInt(g.n + 1)))
        IN  /\ out.call = "add" => Top.g = add_assign(g, out.x)
            /\ out.call = "add_assign" => Top.g = add(g, out.x)
            /\ Top.g.n = g.n + 1
            /\ Top.g.m1 = new_mean
            /\ Top.g.m2 = RAdd(g.m2, RMul(RSub(x, g.m1), RSub(x, new_mean)))

\* g + x has been computed for a g of several samples, with x off the mean,
\* and g += x gives the same
C11_Witness ==
    /\ out.call = "add"
    /\ out.self.n >= 2
    /\ out.self.m2 # RZero
    /\ RInt(out.x) # out.self.m1
    /\ Top.g = add_assign(out.self, out.x)

\* C12: the equality of accumulators is symmetric: a == b holds exactly when
\* b == a does (equal count, and mean and m2 within 1e-8 + 1e-5 * |b.f|).
C12_EqSymmetric ==
    /\ inst.call = "eq" => (inst.res <=> eq(cy, cx))
    /\ inst.call = "ne" => (inst.res <=> ~eq(cy, cx))

(***************************************************************************)
(* Properties of power_semigroup and power_monoid.                         *)
(***************************************************************************)
\* op folded left to right over n copies of x (n >= 1)
RECURSIVE FoldCopies(_, _)
FoldCopies(x, n) == IF n = 1 THEN x ELSE String_op(FoldCopies(x, n - 1), x)

\* C1: for n >= 1, power_semigroup(x, n) returns op folded left to right
\* over n copies of x.
C1_PowerIsLeftFold ==
    (pw.fn = "power_semigroup" /\ pw.st.pc = "done" /\ pw.n >= 1) =>
        pw.res = Some(FoldCopies(pw.st.x, pw.n))

C7_HashMapOp ==
    (kind = "hashmap" /\ inst.call = "op") =>
        /\ DOMAIN inst.res = DOMAIN cx \cup DOMAIN cy
        /\ \A k \in DOMAIN inst.res :
             inst.res[k] =
                IF k \in DOMAIN cx /\ k \in DOMAIN cy THEN String_op(cx[k], cy[k])
                ELSE IF k \in DOMAIN cx THEN cx[k]
                ELSE cy[k]

\* op has run on two maps that share a key with different values and each
\* have a key of their own
C7_Witness ==
    /\ kind = "hashmap"
    /\ inst.call = "op"
    /\ DOMAIN cx = {"i", "j"}
    /\ DOMAIN cy = {"j", "k"}
    /\ cx["j"] = <<"a">>
    /\ cy["j"] = <<"b">>
    /\ inst.res["j"] = <<"a", "b">>

\* C8: on pairs, Option and maps, op is associative and zero() is a left
\* and a right identity, with the non-commutative String among the parts.
C8_CompositeLaws ==
    /\ inst.call = "associativity" => inst.left = inst.right
    /\ inst.call = "left_zero" => inst.res = cx
    /\ inst.call = "right_zero" => inst.res = cx

\* the associativity test has run on three maps that share a key, with
\* values whose order matters
C8_Witness ==
    /\ kind = "hashmap"
    /\ inst.call = "associativity"
    /\ "j" \in DOMAIN cx /\ cx["j"] = <<"a">>
    /\ "j" \in DOMAIN cy /\ cy["j"] = <<"b">>
    /\ "j" \in DOMAIN inst.z /\ inst.z["j"] = <<"a">>
    /\ inst.left["j"] = <<"a", "b", "a">>
    /\ inst.left = inst.right

====
